---- MODULE Spec2Model ----
(***************************************************************************)
(* A model of the TCP string search server:                                *)
(*   server/server/server.py            listener, handle_client, receive   *)
(*   server/server/search_algorithms.py the five search strategies         *)
(*   server/server/utils.py             reread_file                        *)
(*   server/server/exceptions.py        InvalidPayloadError                *)
(*                                                                         *)
(* Text is a sequence of code points, bytes a sequence of numbers 0..255.  *)
(* Responses handed to sendall are TLA+ strings.                           *)
(***************************************************************************)
EXTENDS Integers, Sequences, FiniteSets, TLC

VARIABLES
    \* ---- the server process -------------------------------------------
    REREAD_QUERY,   \* config flag reread_on_query
    SSL_ENABLED,    \* config flag ssl_enabled
    file,           \* the dataset file on disk (changed by the environment)
    CACHE_DATA,     \* module-level snapshot loaded at import
    listener,       \* "listening" | "stopped": the accept loop of start()
    pc,             \* per connection: position of its handler thread, or
                    \* "pending" (not yet accepted), "refused" (accept raised)
    recvd,          \* per connection: bytes sock.recv returned (or NoBytes)
    request,        \* handle_client local
    file_dt,        \* handle_client local
    search_data,    \* handle_client local
    found,          \* handle_client local
    response_time,  \* handle_client local
    response,       \* handle_client local: text passed to sendall
    exc,            \* exception in flight in the handler (or NoExc)
    sockLog,        \* per connection: the calls made on client_sock, in order
    performance_stats, \* per connection: the StringSearchServer instance's stats
    \* ---- the search functions applied on their own ---------------------
    search_string,
    content,
    result

vars == << REREAD_QUERY, SSL_ENABLED, file, CACHE_DATA, listener, pc, recvd, request, file_dt,
           search_data, found, response_time, response, exc, sockLog,
           performance_stats, search_string, content, result >>

serverVars == << REREAD_QUERY, SSL_ENABLED, file, CACHE_DATA, listener, pc, recvd, request,
                 file_dt, search_data, found, response_time, response, exc,
                 sockLog, performance_stats >>

searchVars == << search_string, content, result >>

----------------------------------------------------------------------------
(* Bounds of the model *)

\* number of client connections that arrive
MaxConns == 2
\* longest dataset handed to the search functions on their own
MaxData == 4
\* config value max_payload, scaled down
MaxPayload == 3

----------------------------------------------------------------------------
(* Text *)

Min(a, b) == IF a <= b THEN a ELSE b
Max(a, b) == IF a >= b THEN a ELSE b
Range(s) == { s[i] : i \in 1..Len(s) }

\* "\x00"
NUL == 0

\* str.isspace() for the code points below 2048
IsSpace(ch) == ch \in {9, 10, 11, 12, 13, 28, 29, 30, 31, 32, 133, 160}

RECURSIVE LStrip(_)
LStrip(s) == IF s # <<>> /\ IsSpace(Head(s)) THEN LStrip(Tail(s)) ELSE s

RECURSIVE RStrip(_)
RStrip(s) ==
    IF s # <<>> /\ IsSpace(s[Len(s)]) THEN RStrip(SubSeq(s, 1, Len(s) - 1)) ELSE s

\* str.strip()
Strip(s) == RStrip(LStrip(s))

\* str.rstrip("\x00")
RECURSIVE RStripNul(_)
RStripNul(s) ==
    IF s # <<>> /\ s[Len(s)] = NUL THEN RStripNul(SubSeq(s, 1, Len(s) - 1)) ELSE s

\* Python's str < str and str <= str: lexicographic by code point
StrLess(a, b) ==
    \E k \in 1..(Len(b)) :
        /\ \A j \in 1..(k - 1) : j <= Len(a) /\ a[j] = b[j]
        /\ k - 1 <= Len(a)
        /\ (k > Len(a) \/ a[k] < b[k])

StrLE(a, b) == a = b \/ StrLess(a, b)

\* sorted(content)
Sorted(s) == SortSeq(s, StrLess)

----------------------------------------------------------------------------
(* search_algorithms.py *)

\* content.sort(): the list the caller passed is put in order
SortedInPlace(c) == Sorted(c)

\* sorted(content) (lines 57, 78, 106, 133) builds a new list and the name is
\* rebound to it: the list the caller passed is as it was
CallerListAfter(c) == c

RECURSIVE LinearScan(_, _, _)
LinearScan(s, c, i) ==
    IF i > Len(c) THEN FALSE
    ELSE IF Strip(c[i]) = s THEN TRUE
    ELSE LinearScan(s, c, i + 1)

linear_search(s, c) == LinearScan(s, c, 1)

\* bisect.bisect_left(a, x) with 0-based lo, hi
RECURSIVE BisectLeft(_, _, _, _)
BisectLeft(a, x, lo, hi) ==
    IF lo < hi
    THEN LET mid == (lo + hi) \div 2
         IN  IF StrLess(a[mid + 1], x) THEN BisectLeft(a, x, mid + 1, hi)
             ELSE BisectLeft(a, x, lo, mid)
    ELSE lo

\* str.startswith
StartsWith(a, b) == Len(b) <= Len(a) /\ SubSeq(a, 1, Len(b)) = b

\* the element found is only required to start with the needle
binary_search_prefix(s, c) ==
    LET sorted_content == Sorted(c)
        index == BisectLeft(sorted_content, s, 0, Len(sorted_content))
    IN  index # Len(sorted_content) /\ StartsWith(sorted_content[index + 1], s)

binary_search(s, c) ==
    LET sorted_content == Sorted(c)
        index == BisectLeft(sorted_content, s, 0, Len(sorted_content))
    IN  index # Len(sorted_content) /\ sorted_content[index + 1] = s

\* half the root: a block size that is 0 for the sizes 1, 2 and 3
HalfRoot(n) == (CHOOSE r \in 0..n : r * r <= n /\ (r + 1) * (r + 1) > n) \div 2

\* int(math.sqrt(n)) for the sizes of the model
ISqrt(n) == CHOOSE r \in 0..n : r * r <= n /\ (r + 1) * (r + 1) > n

\* the jump loop advancing only past elements below the needle
RECURSIVE JumpLoopStrict(_, _, _, _, _, _)
JumpLoopStrict(c, s, n, block_size, prev, curr) ==
    IF curr < n /\ StrLess(c[curr + 1], s)
    THEN LET next == curr + block_size
         IN  JumpLoopStrict(c, s, n, block_size, curr,
                            IF next >= n THEN Min(next, n) ELSE next)
    ELSE << prev, curr >>

\* the while loop of jump_search: <<prev, curr>> when it ends
RECURSIVE JumpLoop(_, _, _, _, _, _)
JumpLoop(c, s, n, block_size, prev, curr) ==
    IF curr < n /\ StrLE(c[curr + 1], s)
    THEN LET next == curr + block_size
         IN  JumpLoop(c, s, n, block_size, curr,
                      IF next >= n THEN Min(next, n) ELSE next)
    ELSE << prev, curr >>

\* range(prev + 1, curr): the scan skips the first element of the bracket
JumpScanSkipsFirst(c, s, prev, curr) ==
    \E i \in (prev + 1)..(curr - 1) : c[i + 1] = s

\* the for loop of jump_search over range(prev, curr)
JumpScan(c, s, prev, curr) ==
    \E i \in prev..(curr - 1) : c[i + 1] = s

jump_search(s, c) ==
    LET n == Len(c)
        block_size == ISqrt(n)
        sorted_c == Sorted(c)
        pcur == JumpLoop(sorted_c, s, n, block_size, 0, 0)
    IN  JumpScan(sorted_c, s, pcur[1], pcur[2])

\* search_item is a str here; a list needle is outside the modelled inputs
search_in_set(s, c) ==
    LET c2 == IF c # <<>> THEN Sorted(c) ELSE c
        data_set == Range(c2)
    IN  s \in data_set

\* the while loop of exponential_search
RECURSIVE ExpLoop(_, _, _)
ExpLoop(c, s, i) ==
    IF i < Len(c) /\ StrLE(c[i + 1], s) THEN ExpLoop(c, s, i * 2) ELSE i

exponential_search(s, c) ==
    LET sorted_c == Sorted(c)
    IN  IF sorted_c = <<>> THEN FALSE
        ELSE IF sorted_c[1] = s THEN TRUE
        ELSE LET i == ExpLoop(sorted_c, s, 1)
             IN  binary_search(s, SubSeq(sorted_c, (i \div 2) + 1,
                                         Min(i, Len(sorted_c))))

----------------------------------------------------------------------------
(* utils.py: the dataset file *)

\* the file on disk: absent, present but failing to read, or readable text
FileMissing == [kind |-> "missing", text |-> <<>>]
FileUnreadable == [kind |-> "unreadable", text |-> <<>>]
FileText(t) == [kind |-> "text", text |-> t]

\* "a\nab\n\nb\nba\n" and "b\n a \né"
TextOne == <<97, 10, 97, 98, 10, 10, 98, 10, 98, 97, 10>>
TextTwo == <<98, 10, 32, 97, 32, 10, 233>>

FileStates == {FileMissing, FileUnreadable, FileText(TextOne), FileText(TextTwo)}

\* the file states of the runs with several connections
CoreFileStates == {FileUnreadable, FileText(TextOne), FileText(TextTwo)}

\* str.splitlines() boundaries below 2048; "\r\n" counts once
IsLineBreak(ch) == ch \in {10, 11, 12, 13, 28, 29, 30, 133}

RECURSIVE SplitFrom(_, _, _, _)
SplitFrom(t, i, cur, acc) ==
    IF i > Len(t) THEN (IF cur = <<>> THEN acc ELSE Append(acc, cur))
    ELSE IF IsLineBreak(t[i])
         THEN IF t[i] = 13 /\ i < Len(t) /\ t[i + 1] = 10
              THEN SplitFrom(t, i + 2, <<>>, Append(acc, cur))
              ELSE SplitFrom(t, i + 1, <<>>, Append(acc, cur))
         ELSE SplitFrom(t, i + 1, Append(cur, t[i]), acc)

SplitLines(t) == SplitFrom(t, 1, <<>>, <<>>)

\* [line for line in lines if line]
KeepLine(line) == line # <<>>

FilterLines(lines) == SelectSeq(lines, KeepLine)

\* the value of a call: returned (exc.type = "none") or raised
NoExc == [type |-> "none", msg |-> ""]
Exc(t, m) == [type |-> t, msg |-> m]

\* an Optional[List[str]]
None == [tag |-> "None", val |-> <<>>]
List(v) == [tag |-> "list", val |-> v]

\* reread_file: FileNotFoundError is swallowed and None returned; any other
\* failure of open/read escapes
reread_file(f) ==
    IF f.kind = "text" THEN [ret |-> List(FilterLines(SplitLines(f.text))), exc |-> NoExc]
    ELSE IF f.kind = "missing" THEN [ret |-> None, exc |-> NoExc]
    ELSE [ret |-> None, exc |-> Exc("PermissionError", "Permission denied")]

----------------------------------------------------------------------------
(* server.py: StringSearchServer *)

MAX_PAYLOAD == MaxPayload

Conns == 1..MaxConns

\* handler threads that are alive
Running == {"recv", "resolve", "search", "stats", "stats_cs", "send", "except", "finally"}

\* a read that returns everything that arrived
RecvUnbounded(payload, max_payload_size) == payload

\* sock.recv(max_payload_size): at most that many of the bytes that arrived
RecvBytes(payload, max_payload_size) == SubSeq(payload, 1, Min(Len(payload), max_payload_size))

RECURSIVE Nuls(_)
Nuls(n) == IF n = 0 THEN <<>> ELSE <<NUL>> \o Nuls(n - 1)

\* every byte string of at most n bytes over the alphabet A
BytesUpTo(A, n) == UNION { [1..k -> A] : k \in 0..n }

\* what a client may send: every string of NUL, blank, "a" and a lone
\* continuation byte up to one byte past max_payload (zero bytes: the peer
\* closed), and "b", " a\n", "é" in UTF-8 and its first byte alone
Payloads ==
    BytesUpTo({NUL, 32, 97, 128}, MAX_PAYLOAD + 1)
        \cup { <<98>>, <<32, 97, 10>>, <<195, 169>>, <<195>> }

\* the payloads of the runs with several connections: " a\n", "b" and a lone
\* continuation byte
CorePayloads == { <<32, 97, 10>>, <<98>>, <<128>> }

\* how a socket call can fail
TransportErrors == {"ConnectionError", "TimeoutError", "OSError"}

\* the runs with several connections have a transport that does not fail
CoreErrors == {}

\* bytes.decode(): UTF-8, strict, for bytes below 224 (one- and two-byte forms)
RECURSIVE DecodeFrom(_, _, _)
DecodeFrom(b, i, acc) ==
    IF i > Len(b) THEN [ok |-> TRUE, val |-> acc]
    ELSE IF b[i] < 128 THEN DecodeFrom(b, i + 1, Append(acc, b[i]))
    ELSE IF /\ b[i] \in 194..223
            /\ i + 1 <= Len(b)
            /\ b[i + 1] \in 128..191
         THEN DecodeFrom(b, i + 2, Append(acc, (b[i] - 192) * 64 + (b[i + 1] - 128)))
    ELSE [ok |-> FALSE, val |-> <<>>]

Decode(b) == DecodeFrom(b, 1, <<>>)

\* InvalidPayloadError(): the default message of the constructor
InvalidPayloadDefault == Exc("InvalidPayloadError", "Invalid payload")

\* the try body of _strip_exceeding_received_data; r is what recv did:
\* [err |-> a transport error or "none", bytes |-> the bytes returned]
StripBody(r, max_payload_size) ==
    IF r.err # "none" THEN [ret |-> <<>>, exc |-> Exc(r.err, "recv failed")]
    ELSE LET dec == Decode(r.bytes)
         IN  IF ~dec.ok
             THEN [ret |-> <<>>, exc |-> Exc("UnicodeDecodeError", "invalid start byte")]
             ELSE LET data == Strip(dec.val)
                  IN  IF data = <<>>
                      THEN [ret |-> <<>>,
                            exc |-> Exc("InvalidPayloadError", "Empty payload received")]
                      ELSE [ret |-> IF Len(data) > max_payload_size
                                    THEN RStripNul(data) ELSE data,
                            exc |-> NoExc]

\* only the body's own InvalidPayloadError is kept; other exceptions escape
strip_lets_others_escape(r, max_payload_size) == StripBody(r, max_payload_size)

\* _strip_exceeding_received_data: "except Exception as e: raise
\* InvalidPayloadError from e" catches every exception of the body, the
\* body's own InvalidPayloadError included
_strip_exceeding_received_data(r, max_payload_size) ==
    LET body == StripBody(r, max_payload_size)
    IN  IF body.exc # NoExc THEN [ret |-> <<>>, exc |-> InvalidPayloadDefault]
        ELSE body

\* _load_file_contents: FileNotFoundError and every other exception of
\* reread_file become FileAccessError; a returned value is passed on
_load_file_contents(f) ==
    LET r == reread_file(f)
    IN  IF r.exc = NoExc THEN r
        ELSE IF r.exc.type = "FileNotFoundError"
             THEN [ret |-> None, exc |-> Exc("FileAccessError", "File not found")]
        ELSE [ret |-> None,
              exc |-> Exc("FileAccessError", "Failed to load file: " \o r.exc.msg)]

\* the InvalidPayloadError clause replies like the other clauses
ExceptReplyNoMessage(e) ==
    IF e.type \in {"InvalidPayloadError", "ConnectionError", "TimeoutError", "OSError",
                   "UnicodeError", "UnicodeDecodeError"}
    THEN "SERVER ERROR" ELSE ""

\* the except clauses of handle_client: the reply the matching clause sends,
\* "" when no clause matches and the exception leaves the handler
ExceptReply(e) ==
    IF e.type = "InvalidPayloadError" THEN "ERROR: " \o e.msg
    ELSE IF e.type \in {"ConnectionError", "TimeoutError"} THEN "SERVER ERROR"
    ELSE IF e.type = "OSError" THEN "SERVER ERROR"
    ELSE IF e.type \in {"UnicodeError", "UnicodeDecodeError"} THEN "SERVER ERROR"
    ELSE ""

\* where control goes when e is raised inside the try body
RaiseTo(e) == IF ExceptReply(e) # "" THEN "except" ELSE "finally"

\* _search_string: the strategy wired in is jump_search
_search_string(data, req) == jump_search(req, data)

\* timer() differences, in ms
ResponseTimes == {2}

NewStats == [total_queries |-> 0, avg_response_time |-> 0, max_concurrent |-> 0]

\* no recv call made (or its result gone with the thread)
NoRecv == [err |-> "unset", bytes |-> <<>>]

SockCall(op, data, ok) == [op |-> op, data |-> data, ok |-> ok]

----------------------------------------------------------------------------
(* The server: state after import and before the first accept *)

ServerInit ==
    /\ REREAD_QUERY \in BOOLEAN
    /\ SSL_ENABLED \in BOOLEAN
    /\ file \in {f \in FileStates : f.kind = "text"}
    /\ CACHE_DATA = reread_file(file).ret
    /\ listener = "listening"
    /\ pc = [c \in Conns |-> "pending"]
    /\ recvd = [c \in Conns |-> NoRecv]
    /\ request = [c \in Conns |-> <<>>]
    /\ file_dt = [c \in Conns |-> None]
    /\ search_data = [c \in Conns |-> <<>>]
    /\ found = [c \in Conns |-> FALSE]
    /\ response_time = [c \in Conns |-> 0]
    /\ response = [c \in Conns |-> ""]
    /\ exc = [c \in Conns |-> NoExc]
    /\ sockLog = [c \in Conns |-> <<>>]
    /\ performance_stats = [c \in Conns |-> NewStats]

SearchIdle ==
    /\ search_string = <<>>
    /\ content = <<>>
    /\ result = {}

\* the server as configured without transport security
Init == ServerInit /\ SSL_ENABLED = FALSE /\ SearchIdle

\* the server with ssl_enabled set: the listening socket is wrapped
InitTls == ServerInit /\ SSL_ENABLED = TRUE /\ SearchIdle

----------------------------------------------------------------------------
(* start(): the accept loop *)

\* threading.active_count() - 1
ActiveThreads == Cardinality({d \in Conns : pc[d] \in Running})

\* handle_concurrency_metrics on the fresh instance
handle_concurrency_metrics(st) ==
    [st EXCEPT !.max_concurrent = Max(st.max_concurrent, ActiveThreads)]

\* the loop joins the handler it started before it accepts again
AcceptAfterJoin(c) ==
    /\ listener = "listening"
    /\ pc[c] = "pending"
    /\ \A d \in Conns : d < c => pc[d] = "done"
    /\ performance_stats' =
           [performance_stats EXCEPT ![c] = handle_concurrency_metrics(NewStats)]
    /\ pc' = [pc EXCEPT ![c] = "recv"]
    /\ UNCHANGED << REREAD_QUERY, SSL_ENABLED, file, CACHE_DATA, listener, recvd,
                    request, file_dt, search_data, found, response_time, response,
                    exc, sockLog, searchVars >>

\* one turn of the loop: accept the next connection, build its own
\* StringSearchServer, update its concurrency metric, start its thread
Accept(c) ==
    /\ listener = "listening"
    /\ pc[c] = "pending"
    /\ \A d \in Conns : d < c => pc[d] # "pending"
    /\ performance_stats' =
           [performance_stats EXCEPT ![c] = handle_concurrency_metrics(NewStats)]
    /\ pc' = [pc EXCEPT ![c] = "recv"]
    /\ UNCHANGED << REREAD_QUERY, SSL_ENABLED, file, CACHE_DATA, listener, recvd, request,
                    file_dt, search_data, found, response_time, response, exc,
                    sockLog, searchVars >>

\* accept() raises OSError: "except OSError" is outside the loop, so the loop
\* ends and the listening socket is closed
AcceptRaises ==
    /\ listener = "listening"
    /\ listener' = "stopped"
    /\ UNCHANGED << REREAD_QUERY, SSL_ENABLED, file, CACHE_DATA, pc, recvd, request, file_dt,
                    search_data, found, response_time, response, exc, sockLog,
                    performance_stats, searchVars >>

\* line 314 with the listening socket wrapped (285-288): accept() performs the
\* TLS handshake of the incoming connection; a failed handshake raises
\* ssl.SSLError, an OSError, out of accept(), caught at lines 330-331
HandshakeFails(c) ==
    /\ SSL_ENABLED
    /\ listener = "listening"
    /\ pc[c] = "pending"
    /\ \A d \in Conns : d < c => pc[d] # "pending"
    /\ pc' = [pc EXCEPT ![c] = "refused"]
    /\ listener' = "stopped"
    /\ UNCHANGED << REREAD_QUERY, SSL_ENABLED, file, CACHE_DATA, recvd, request,
                    file_dt, search_data, found, response_time, response, exc,
                    sockLog, performance_stats, searchVars >>

\* the environment replaces, removes or locks the dataset file
FileChange(S) ==
    /\ file' \in S \ {file}
    /\ UNCHANGED << REREAD_QUERY, SSL_ENABLED, CACHE_DATA, listener, pc, recvd, request,
                    file_dt, search_data, found, response_time, response, exc,
                    sockLog, performance_stats, searchVars >>

----------------------------------------------------------------------------
(* handle_client, one action per step that touches the socket, the file or
   the statistics *)

\* line 118: the receive step; lines 120-123: the empty-request branch
Receive(c, P, E) ==
    /\ pc[c] = "recv"
    /\ \E r \in [err : {"none"}, bytes : {RecvBytes(p, MAX_PAYLOAD) : p \in P}]
              \cup [err : E, bytes : {<<>>}] :
         LET got == _strip_exceeding_received_data(r, MAX_PAYLOAD)
         IN  /\ recvd' = [recvd EXCEPT ![c] = r]
             /\ sockLog' = [sockLog EXCEPT
                                ![c] = Append(@, SockCall("recv", "", r.err = "none"))]
             /\ IF got.exc # NoExc
                THEN /\ exc' = [exc EXCEPT ![c] = got.exc]
                     /\ pc' = [pc EXCEPT ![c] = RaiseTo(got.exc)]
                     /\ UNCHANGED << request, response >>
                ELSE /\ request' = [request EXCEPT ![c] = got.ret]
                     /\ exc' = exc
                     /\ IF got.ret = <<>>
                        THEN /\ response' = [response EXCEPT ![c] = "STRING NOT EXIST"]
                             /\ pc' = [pc EXCEPT ![c] = "send"]
                        ELSE /\ response' = response
                             /\ pc' = [pc EXCEPT ![c] = "resolve"]
    /\ UNCHANGED << REREAD_QUERY, SSL_ENABLED, file, CACHE_DATA, listener, file_dt, search_data,
                    found, response_time, performance_stats, searchVars >>

\* the dataset taken from the startup snapshot whatever the configuration
ResolveFromSnapshot(c) ==
    /\ pc[c] = "resolve"
    /\ search_data' = [search_data EXCEPT ![c] = CACHE_DATA.val]
    /\ pc' = [pc EXCEPT ![c] = "search"]
    /\ UNCHANGED << REREAD_QUERY, SSL_ENABLED, file, CACHE_DATA, listener, recvd,
                    request, file_dt, exc, found, response_time, response,
                    sockLog, performance_stats, searchVars >>

\* lines 128-141: the dataset for this request
Resolve(c) ==
    /\ pc[c] = "resolve"
    /\ IF REREAD_QUERY
       THEN LET got == _load_file_contents(file)
            IN  IF got.exc # NoExc
                THEN /\ exc' = [exc EXCEPT ![c] = got.exc]
                     /\ pc' = [pc EXCEPT ![c] = RaiseTo(got.exc)]
                     /\ UNCHANGED << file_dt, search_data >>
                ELSE /\ file_dt' = [file_dt EXCEPT ![c] = got.ret]
                     /\ search_data' =
                            [search_data EXCEPT
                                 ![c] = IF got.ret.tag = "list" THEN got.ret.val ELSE <<>>]
                     /\ pc' = [pc EXCEPT ![c] = "search"]
                     /\ exc' = exc
       ELSE /\ search_data' = [search_data EXCEPT ![c] = CACHE_DATA.val]
            /\ pc' = [pc EXCEPT ![c] = "search"]
            /\ UNCHANGED << file_dt, exc >>
    /\ UNCHANGED << REREAD_QUERY, SSL_ENABLED, file, CACHE_DATA, listener, recvd, request, found,
                    response_time, response, sockLog, performance_stats, searchVars >>

\* line 144: _search_string
Search(c) ==
    /\ pc[c] = "search"
    /\ found' = [found EXCEPT ![c] = _search_string(search_data[c], request[c])]
    /\ \E t \in ResponseTimes : response_time' = [response_time EXCEPT ![c] = t]
    /\ pc' = [pc EXCEPT ![c] = "stats"]
    \* the list searched is the caller's object: CACHE_DATA itself (line 140)
    \* or the list the reread returned (line 136)
    /\ search_data' = [search_data EXCEPT ![c] = CallerListAfter(@)]
    /\ CACHE_DATA' = IF REREAD_QUERY THEN CACHE_DATA
                     ELSE List(CallerListAfter(CACHE_DATA.val))
    /\ UNCHANGED << REREAD_QUERY, SSL_ENABLED, file, listener, recvd, request,
                    file_dt, response, exc, sockLog, performance_stats, searchVars >>

\* lines 147-148: a lock created by this call is acquired
StatsAcquire(c) ==
    /\ pc[c] = "stats"
    /\ pc' = [pc EXCEPT ![c] = "stats_cs"]
    /\ UNCHANGED << REREAD_QUERY, SSL_ENABLED, file, CACHE_DATA, listener, recvd, request,
                    file_dt, search_data, found, response_time, response, exc,
                    sockLog, performance_stats, searchVars >>

\* the update that leaves the record as it was
UpdateStatsSkipped(st, sample) == st

\* lines 149-154
UpdateStats(st, sample) ==
    LET n == st.total_queries + 1
    IN  [st EXCEPT !.total_queries = n,
                   !.avg_response_time = (st.avg_response_time * (n - 1) + sample) \div n]

\* every handler updating the one record of the first connection
StatsUpdateShared(c) ==
    /\ pc[c] = "stats_cs"
    /\ performance_stats' =
           [performance_stats EXCEPT ![1] = UpdateStats(@, response_time[c])]
    /\ response' = [response EXCEPT
                        ![c] = IF found[c] THEN "STRING EXISTS" ELSE "STRING NOT EXIST"]
    /\ pc' = [pc EXCEPT ![c] = "send"]
    /\ UNCHANGED << REREAD_QUERY, SSL_ENABLED, file, CACHE_DATA, listener, recvd,
                    request, file_dt, search_data, found, response_time, exc,
                    sockLog, searchVars >>

\* lines 149-157: count and running mean, lock released, verdict text chosen
StatsUpdate(c) ==
    /\ pc[c] = "stats_cs"
    /\ performance_stats' =
           [performance_stats EXCEPT ![c] = UpdateStats(@, response_time[c])]
    /\ response' = [response EXCEPT
                        ![c] = IF found[c] THEN "STRING EXISTS" ELSE "STRING NOT EXIST"]
    /\ pc' = [pc EXCEPT ![c] = "send"]
    /\ UNCHANGED << REREAD_QUERY, SSL_ENABLED, file, CACHE_DATA, listener, recvd, request,
                    file_dt, search_data, found, response_time, exc, sockLog,
                    searchVars >>

\* a sendall that may raise although the reply went out
SendReplyRaisesLate(c, E) ==
    /\ pc[c] = "send"
    /\ sockLog' = [sockLog EXCEPT
                       ![c] = Append(@, SockCall("sendall", response[c], TRUE))]
    /\ \E o \in {"none"} \cup E :
         IF o = "none"
         THEN /\ pc' = [pc EXCEPT ![c] = "finally"]
              /\ exc' = exc
         ELSE /\ exc' = [exc EXCEPT ![c] = Exc(o, "send failed")]
              /\ pc' = [pc EXCEPT ![c] = RaiseTo(Exc(o, "send failed"))]
    /\ UNCHANGED << REREAD_QUERY, SSL_ENABLED, file, CACHE_DATA, listener, recvd,
                    request, file_dt, search_data, found, response_time, response,
                    performance_stats, searchVars >>

\* lines 121 and 159: sendall of the reply; it is delivered or the call raises
SendReply(c, E) ==
    /\ pc[c] = "send"
    /\ \E o \in {"none"} \cup E :
         /\ sockLog' = [sockLog EXCEPT
                            ![c] = Append(@, SockCall("sendall", response[c], o = "none"))]
         /\ IF o = "none"
            THEN /\ pc' = [pc EXCEPT ![c] = "finally"]
                 /\ exc' = exc
            ELSE /\ exc' = [exc EXCEPT ![c] = Exc(o, "send failed")]
                 /\ pc' = [pc EXCEPT ![c] = RaiseTo(Exc(o, "send failed"))]
    /\ UNCHANGED << REREAD_QUERY, SSL_ENABLED, file, CACHE_DATA, listener, recvd, request,
                    file_dt, search_data, found, response_time, response,
                    performance_stats, searchVars >>

\* lines 162-173: the matching except clause sends its reply; a failure of
\* that sendall is raised out of the handler
ExceptSend(c, E) ==
    /\ pc[c] = "except"
    /\ \E o \in {"none"} \cup E :
         /\ sockLog' = [sockLog EXCEPT
                            ![c] = Append(@, SockCall("sendall", ExceptReply(exc[c]),
                                                      o = "none"))]
         /\ exc' = [exc EXCEPT ![c] = IF o = "none" THEN NoExc ELSE Exc(o, "send failed")]
    /\ pc' = [pc EXCEPT ![c] = "finally"]
    /\ UNCHANGED << REREAD_QUERY, SSL_ENABLED, file, CACHE_DATA, listener, recvd, request,
                    file_dt, search_data, found, response_time, response,
                    performance_stats, searchVars >>

\* close() reached only when no socket call failed before
CloseSockOnSuccessOnly(log) ==
    IF \E i \in 1..Len(log) : ~log[i].ok THEN log
    ELSE Append(log, SockCall("close", "", TRUE))

\* lines 174-175: client_sock.close()
CloseSock(log) == Append(log, SockCall("close", "", TRUE))

\* the accept loop after handle_client was called in the loop's own frame
HandlerInline(l, e) == IF e # NoExc THEN "stopped" ELSE l

\* lines 324-327: handle_client runs in its own Thread, so an exception that
\* leaves it ends that thread and is not raised in start()
ThreadExit(l, e) == l

\* the finally clause, then the thread ends and its locals are gone
Finally(c) ==
    /\ pc[c] = "finally"
    /\ listener' = ThreadExit(listener, exc[c])
    /\ sockLog' = [sockLog EXCEPT ![c] = CloseSock(@)]
    /\ pc' = [pc EXCEPT ![c] = "done"]
    /\ recvd' = [recvd EXCEPT ![c] = NoRecv]
    /\ request' = [request EXCEPT ![c] = <<>>]
    /\ file_dt' = [file_dt EXCEPT ![c] = None]
    /\ search_data' = [search_data EXCEPT ![c] = <<>>]
    /\ found' = [found EXCEPT ![c] = FALSE]
    /\ response_time' = [response_time EXCEPT ![c] = 0]
    /\ response' = [response EXCEPT ![c] = ""]
    /\ exc' = [exc EXCEPT ![c] = NoExc]
    /\ UNCHANGED << REREAD_QUERY, SSL_ENABLED, file, CACHE_DATA, performance_stats,
                    searchVars >>

\* several connections at once, the core inputs
Next ==
    \/ \E c \in Conns : Accept(c)
    \/ AcceptRaises
    \/ FileChange(CoreFileStates)
    \/ \E c \in Conns : Receive(c, CorePayloads, CoreErrors)
    \/ \E c \in Conns : Resolve(c)
    \/ \E c \in Conns : Search(c)
    \/ \E c \in Conns : StatsAcquire(c)
    \/ \E c \in Conns : StatsUpdate(c)
    \/ \E c \in Conns : SendReply(c, CoreErrors)
    \/ \E c \in Conns : ExceptSend(c, CoreErrors)
    \/ \E c \in Conns : Finally(c)

Spec == Init /\ [][Next]_vars

\* one connection, every payload and every failure
NextHandler ==
    \/ Accept(1)
    \/ AcceptRaises
    \/ FileChange(FileStates)
    \/ Receive(1, Payloads, TransportErrors)
    \/ Resolve(1)
    \/ Search(1)
    \/ StatsAcquire(1)
    \/ StatsUpdate(1)
    \/ SendReply(1, TransportErrors)
    \/ ExceptSend(1, TransportErrors)
    \/ Finally(1)

SpecHandler == Init /\ [][NextHandler]_vars

\* several TLS connections, some failing their handshake
NextTls ==
    \/ \E c \in Conns : Accept(c)
    \/ \E c \in Conns : HandshakeFails(c)
    \/ \E c \in Conns : Receive(c, CorePayloads, CoreErrors)
    \/ \E c \in Conns : Resolve(c)
    \/ \E c \in Conns : Search(c)
    \/ \E c \in Conns : StatsAcquire(c)
    \/ \E c \in Conns : StatsUpdate(c)
    \/ \E c \in Conns : SendReply(c, CoreErrors)
    \/ \E c \in Conns : ExceptSend(c, CoreErrors)
    \/ \E c \in Conns : Finally(c)

SpecTls == InitTls /\ [][NextTls]_vars

----------------------------------------------------------------------------
(* The five search functions applied to every needle and dataset *)

\* "a", "ab", "b" and the untrimmed " a"
Lines == { <<97>>, <<97, 98>>, <<98>>, <<32, 97>> }

\* the lines, and "ba", which is in no dataset and sorts after all of them
Needles == Lines \cup { <<98, 97>> }

Datasets == UNION { [1..k -> Lines] : k \in 0..MaxData }

ServerIdle ==
    /\ ServerInit
    /\ REREAD_QUERY = FALSE
    /\ SSL_ENABLED = FALSE
    /\ file = FileText(TextOne)

SearchInit ==
    /\ ServerIdle
    /\ search_string \in Needles
    /\ content \in Datasets
    /\ result = {}

\* result collects <<strategy, returned value>>
NotRun(name) == \A r \in result : r[1] # name

RunLinear ==
    /\ NotRun("linear_search")
    /\ result' = result \cup { << "linear_search", linear_search(search_string, content) >> }
    /\ UNCHANGED << serverVars, search_string, content >>

RunBinary ==
    /\ NotRun("binary_search")
    /\ result' = result \cup { << "binary_search", binary_search(search_string, content) >> }
    /\ content' = CallerListAfter(content)
    /\ UNCHANGED << serverVars, search_string >>

RunJump ==
    /\ NotRun("jump_search")
    /\ result' = result \cup { << "jump_search", jump_search(search_string, content) >> }
    /\ content' = CallerListAfter(content)
    /\ UNCHANGED << serverVars, search_string >>

RunSet ==
    /\ NotRun("search_in_set")
    /\ result' = result \cup { << "search_in_set", search_in_set(search_string, content) >> }
    /\ content' = CallerListAfter(content)
    /\ UNCHANGED << serverVars, search_string >>

RunExponential ==
    /\ NotRun("exponential_search")
    /\ result' = result \cup
           { << "exponential_search", exponential_search(search_string, content) >> }
    /\ content' = CallerListAfter(content)
    /\ UNCHANGED << serverVars, search_string >>

NextSearch == RunLinear \/ RunBinary \/ RunJump \/ RunSet \/ RunExponential

SpecSearch == SearchInit /\ [][NextSearch]_vars

----------------------------------------------------------------------------
(* What a client observes on its connection *)

IsSend(e) == e.op = "sendall"
IsDelivered(e) == e.op = "sendall" /\ e.ok
IsClose(e) == e.op = "close"

\* the sendall calls made on connection c, in order
Sends(c) == SelectSeq(sockLog[c], IsSend)
\* those that did not raise
Delivered(c) == SelectSeq(sockLog[c], IsDelivered)
Closes(c) == Len(SelectSeq(sockLog[c], IsClose))

\* the messages an InvalidPayloadError is constructed with in the source
PayloadMessages == {"Invalid payload", "Empty payload received"}
ErrorReplies == {"ERROR: " \o m : m \in PayloadMessages}
Verdicts == {"STRING EXISTS", "STRING NOT EXIST"}
Replies == Verdicts \cup ErrorReplies \cup {"SERVER ERROR"}

Verdict(req, data) ==
    IF req \in Range(data) THEN "STRING EXISTS" ELSE "STRING NOT EXIST"

\* the receive step of c raised
ReceiveFailed(c) ==
    /\ pc[c] \in {"except", "finally"}
    /\ recvd[c] # NoRecv
    /\ request[c] = <<>>
    /\ response[c] = ""

\* the bytes c received decode and are blank or empty
BlankPayload(c) ==
    /\ recvd[c].err = "none"
    /\ Decode(recvd[c].bytes).ok
    /\ Strip(Decode(recvd[c].bytes).val) = <<>>

\* the bytes c received are not UTF-8
Undecodable(c) == recvd[c].err = "none" /\ ~Decode(recvd[c].bytes).ok

\* in reread mode the load for c's request raised, or returned None
LoadFailed(c) ==
    /\ REREAD_QUERY
    /\ \/ exc[c].type = "FileAccessError"
       \/ /\ pc[c] \in {"search", "stats", "stats_cs", "send", "except", "finally"}
          /\ request[c] # <<>>
          /\ file_dt[c] = None

IsTrimmed(line) == line # <<>> /\ Strip(line) = line

----------------------------------------------------------------------------
(* C1 *)

\* C1: every handler that has terminated made at least one sendall call, had
\* at most one reply delivered, sent nothing but STRING EXISTS, STRING NOT
\* EXIST, ERROR: <message> or SERVER ERROR, and closed the connection after
\* its last send.  (Stated with a sendall that raised counted as a response.)
C1_EveryExitReplies ==
    \A c \in Conns :
        pc[c] = "done" =>
            /\ Len(Sends(c)) >= 1
            /\ Len(Delivered(c)) <= 1
            /\ \A i \in 1..Len(Sends(c)) : Sends(c)[i].data \in Replies
            /\ Closes(c) = 1
            /\ IsClose(sockLog[c][Len(sockLog[c])])

----------------------------------------------------------------------------
(* C2 *)

\* C2: with any number of handlers interleaved, a handler whose request was
\* received (non-empty after trimming, within max_payload) and whose search
\* ran replies STRING EXISTS exactly when the trimmed request is a line of
\* the dataset resolved for that request (the startup snapshot, or in reread
\* mode the lines some state of the file holds), and STRING NOT EXIST otherwise.
C2_VerdictMatchesDataset ==
    \A c \in Conns :
        (pc[c] \in {"send", "finally"} /\ request[c] # <<>> /\ exc[c] = NoExc) =>
            /\ request[c] = Strip(Decode(recvd[c].bytes).val)
            /\ Len(request[c]) <= MAX_PAYLOAD
            /\ response[c] = Verdict(request[c], search_data[c])
            /\ search_data[c] \in
                   IF REREAD_QUERY
                   THEN { _load_file_contents(f).ret.val : f \in FileStates }
                   ELSE { CACHE_DATA.val }
            /\ pc[c] = "finally" =>
                   Sends(c) = << SockCall("sendall",
                                          Verdict(request[c], search_data[c]), TRUE) >>

\* two handlers alive at once have had their verdicts delivered, one STRING
\* EXISTS for " a\n" and one STRING NOT EXIST
C2_Witness ==
    \E c, d \in Conns :
        /\ c # d
        /\ pc[c] = "finally" /\ pc[d] = "finally"
        /\ recvd[c].bytes = <<32, 97, 10>>
        /\ Delivered(c) = << SockCall("sendall", "STRING EXISTS", TRUE) >>
        /\ Delivered(d) = << SockCall("sendall", "STRING NOT EXIST", TRUE) >>

----------------------------------------------------------------------------
(* C3 *)

\* C3: a handler that has terminated closed its connection exactly once, as
\* its last call on the socket, whatever the exit path; a handler that has
\* not terminated has not closed it.
C3_ClosedExactlyOnce ==
    \A c \in Conns :
        /\ pc[c] = "done" =>
               /\ Closes(c) = 1
               /\ IsClose(sockLog[c][Len(sockLog[c])])
        /\ pc[c] # "done" => Closes(c) = 0

\* the exit path where the verdict's sendall and then the SERVER ERROR
\* sendall both raised, and the connection was closed
C3_Witness ==
    /\ pc[1] = "done"
    /\ Len(sockLog[1]) = 4
    /\ sockLog[1][2] = SockCall("sendall", "STRING EXISTS", FALSE)
    /\ sockLog[1][3] = SockCall("sendall", "SERVER ERROR", FALSE)
    /\ IsClose(sockLog[1][4])

----------------------------------------------------------------------------
(* C4 *)

\* C4: on a dataset of non-empty trimmed lines (any size, duplicates or not)
\* and a non-empty trimmed needle, each of the five strategies returns TRUE
\* exactly when the needle is an element of the dataset.
C4_ExactMembership ==
    (IsTrimmed(search_string) /\ \A i \in 1..Len(content) : IsTrimmed(content[i])) =>
        \A r \in result : r[2] = (search_string \in Range(content))

\* all five strategies ran on a trimmed dataset of the largest size that
\* holds a duplicate, a line above the needle and a line below it that is a
\* prefix of the needle, and not the needle
C4_Witness ==
    /\ Cardinality(result) = 5
    /\ Len(content) = MaxData
    /\ IsTrimmed(search_string)
    /\ \A i \in 1..Len(content) : IsTrimmed(content[i])
    /\ search_string \notin Range(content)
    /\ Cardinality(Range(content)) < Len(content)
    /\ \E x, y \in Range(content) :
           /\ StrLess(x, search_string)
           /\ StrLess(search_string, y)
           /\ StartsWith(search_string, x)

----------------------------------------------------------------------------
(* C5 *)

\* C5: on every needle and dataset, lines with leading or trailing
\* whitespace included, the five strategies return the same boolean.
C5_StrategiesAgree ==
    \A r1, r2 \in result : r1[2] = r2[2]

----------------------------------------------------------------------------
(* C6 *)

\* C6: a request whose payload is empty after stripping is answered with
\* STRING NOT EXIST, and with no ERROR: reply.
C6_BlankGetsNotExist ==
    \A c \in Conns :
        (pc[c] = "finally" /\ BlankPayload(c)) =>
            /\ Len(Sends(c)) >= 1
            /\ \A i \in 1..Len(Sends(c)) :
                   /\ Sends(c)[i].data \notin ErrorReplies
                   /\ i = 1 => Sends(c)[i].data = "STRING NOT EXIST"

----------------------------------------------------------------------------
(* C7 *)

\* a step of c out of the InvalidPayloadError clause: one sendall of
\* "ERROR: " followed by the message, straight to the finally clause, with no
\* load, no search and no statistics update
C7_Step ==
    \A c \in Conns :
        (pc[c] = "except" /\ exc[c].type = "InvalidPayloadError" /\ pc'[c] # "except") =>
            /\ pc'[c] = "finally"
            /\ Len(sockLog'[c]) = Len(sockLog[c]) + 1
            /\ LET call == sockLog'[c][Len(sockLog'[c])]
               IN  call.op = "sendall" /\ call.data = "ERROR: " \o exc[c].msg
            /\ file_dt'[c] = None /\ search_data'[c] = <<>>
            /\ performance_stats'[c] = performance_stats[c]

\* once the receive step of c has raised: InvalidPayloadError is what is in
\* flight until the reply, nothing was loaded or searched, and the only
\* sendall made is the ERROR: reply
C7_State ==
    \A c \in Conns :
        /\ ReceiveFailed(c) =>
               /\ pc[c] = "except" =>
                      /\ exc[c].type = "InvalidPayloadError"
                      /\ Sends(c) = <<>>
               /\ pc[c] = "finally" =>
                      /\ Len(Sends(c)) = 1
                      /\ Sends(c)[1].data \in ErrorReplies
               /\ Closes(c) = 0
               /\ file_dt[c] = None /\ search_data[c] = <<>>
               /\ performance_stats[c].total_queries = 0
        /\ pc[c] = "done" => Closes(c) = 1

\* C7: whenever the receive step fails with InvalidPayloadError carrying
\* message m, handle_client calls sendall with exactly "ERROR: " followed by
\* m, loads no dataset, runs no search, and closes the connection once.
C7_InvalidPayloadReply == [](C7_State) /\ [][C7_Step]_vars

\* the ERROR: reply of a failed receive was delivered, close still to come
C7_Witness ==
    /\ ReceiveFailed(1)
    /\ pc[1] = "finally"
    /\ Sends(1) = << SockCall("sendall", "ERROR: Invalid payload", TRUE) >>

----------------------------------------------------------------------------
(* C8 *)

\* C8: when the single read returns zero bytes, the receive step raises
\* InvalidPayloadError with the message "Empty payload received".
C8_ZeroBytesMessage ==
    \A c \in Conns :
        (pc[c] = "except" /\ recvd[c] = [err |-> "none", bytes |-> <<>>]) =>
            exc[c] = Exc("InvalidPayloadError", "Empty payload received")

----------------------------------------------------------------------------
(* C9 *)

\* C9: when the received bytes are not decodable, the receive step raises
\* InvalidPayloadError and nothing else, and every sendall of the handler
\* carries an ERROR: reply, never a verdict and never SERVER ERROR.
C9_UndecodableGetsError ==
    \A c \in Conns :
        Undecodable(c) =>
            /\ pc[c] \in {"except", "finally"}
            /\ pc[c] = "except" =>
                   exc[c].type = "InvalidPayloadError" /\ Sends(c) = <<>>
            /\ pc[c] = "finally" =>
                   /\ Len(Sends(c)) = 1
                   /\ Sends(c)[1].data \in ErrorReplies
                   /\ exc[c].type # "UnicodeDecodeError"

\* a byte string holding a lone continuation byte after "a" was answered
C9_Witness ==
    /\ pc[1] = "finally"
    /\ recvd[1] = [err |-> "none", bytes |-> <<97, 128>>]
    /\ Delivered(1) = << SockCall("sendall", "ERROR: Invalid payload", TRUE) >>

----------------------------------------------------------------------------
(* C10 *)

\* C10: in reread-on-query mode, a handler whose dataset load failed (file
\* missing, or failing to read) replies SERVER ERROR: it sends no verdict and
\* does not reach close without a sendall.
C10_LoadFailureGetsServerError ==
    \A c \in Conns :
        (pc[c] = "finally" /\ LoadFailed(c)) =>
            /\ Len(Sends(c)) >= 1
            /\ \A i \in 1..Len(Sends(c)) : Sends(c)[i].data = "SERVER ERROR"

----------------------------------------------------------------------------
(* C11 *)

\* a socket call of c raised a transport error: the recv, or a sendall
TransportFailed(c) ==
    \/ recvd[c].err \in TransportErrors
    \/ \E i \in 1..Len(sockLog[c]) : IsSend(sockLog[c][i]) /\ ~sockLog[c][i].ok

\* C11: a handler in which a socket call raised a transport error (at the
\* receive or at a send) answers it with SERVER ERROR: its last sendall is
\* SERVER ERROR and none of its sendall calls carries an ERROR: <message>.
C11_TransportFailureGetsServerError ==
    \A c \in Conns :
        (pc[c] = "finally" /\ TransportFailed(c)) =>
            /\ Len(Sends(c)) >= 1
            /\ Sends(c)[Len(Sends(c))].data = "SERVER ERROR"
            /\ \A i \in 1..Len(Sends(c)) : Sends(c)[i].data \notin ErrorReplies

----------------------------------------------------------------------------
(* C12 *)

\* the next connection the accept loop would take
NextPending(c) ==
    pc[c] = "pending" /\ \A d \in Conns : d < c => pc[d] # "pending"

\* C12: with transport security enabled, after the handshake of one incoming
\* connection has failed the listener is still listening, and the connection
\* that arrives next can be accepted.
C12_HandshakeFailureKeepsListening ==
    \A c \in Conns :
        (SSL_ENABLED /\ pc[c] = "refused") =>
            /\ listener = "listening"
            /\ \A d \in Conns : NextPending(d) => ENABLED Accept(d)

----------------------------------------------------------------------------
(* C13 *)

\* a step of c's handler leaves the listener and every other connection as
\* they were
C13_Step ==
    \A c \in Conns :
        (pc[c] \in Running /\ pc'[c] # pc[c]) =>
            /\ listener' = listener
            /\ \A d \in Conns \ {c} :
                   /\ sockLog'[d] = sockLog[d]
                   /\ pc'[d] = pc[d]
                   /\ response'[d] = response[d]
                   /\ exc'[d] = exc[d]

\* C13: no step of a handler, a step that raises, handles or lets escape an
\* exception included, stops the accept loop or changes what is sent to, or
\* the closing of, another connection.
C13_HandlerFailureIsolated == [][C13_Step]_vars

\* handler 1 ended on an exception nothing caught (no sendall at all), and
\* after that connection 2 was accepted and got its verdict
C13_Witness ==
    /\ pc[1] = "done"
    /\ Sends(1) = <<>>
    /\ listener = "listening"
    /\ performance_stats[2].max_concurrent = 0
    /\ pc[2] = "finally"
    /\ Len(Delivered(2)) = 1
    /\ Delivered(2)[1].data \in Verdicts

----------------------------------------------------------------------------
(* C14 *)

\* the step that resolves c's dataset takes the lines the file holds at that
\* moment in reread mode and the snapshot otherwise; the snapshot never changes
C14_Step ==
    /\ CACHE_DATA' = CACHE_DATA
    /\ \A c \in Conns :
           (pc[c] = "resolve" /\ pc'[c] = "search") =>
               search_data'[c] = IF REREAD_QUERY
                                 THEN FilterLines(SplitLines(file.text))
                                 ELSE CACHE_DATA.val

\* the verdict of a request is computed from the dataset resolved for it
C14_State ==
    \A c \in Conns :
        (pc[c] \in {"send", "finally"} /\ request[c] # <<>> /\ exc[c] = NoExc) =>
            response[c] = Verdict(request[c], search_data[c])

\* C14: the snapshot holds the lines of the file as it was at startup and is
\* never reloaded; in reread mode a query's verdict is computed from the lines
\* the file holds when that query resolves its dataset, so a change made
\* between two queries shows in the later one; with reread disabled the
\* verdict is computed from the snapshot however the file was changed.
C14_RereadSeesFileChange ==
    /\ CACHE_DATA = List(FilterLines(SplitLines(file.text)))
    /\ [](C14_State)
    /\ [][C14_Step]_vars

\* reread mode: the same request " a\n" got STRING EXISTS on one connection
\* and, the file having changed, STRING NOT EXIST on the other
C14_Witness ==
    /\ REREAD_QUERY
    /\ pc[1] = "finally" /\ pc[2] = "finally"
    /\ recvd[1].bytes = <<32, 97, 10>> /\ recvd[2].bytes = <<32, 97, 10>>
    /\ Delivered(1) = << SockCall("sendall", "STRING EXISTS", TRUE) >>
    /\ Delivered(2) = << SockCall("sendall", "STRING NOT EXIST", TRUE) >>

----------------------------------------------------------------------------
(* C15 *)

\* c's handler completed a search: it sent a verdict
Searched(c) ==
    \E i \in 1..Len(Sends(c)) : Sends(c)[i].data \in Verdicts

\* C15: once every connection has been handled, the total_queries a handler
\* updated is the number of connections that completed a search: the
\* statistics are one record that all handlers increment.
C15_TotalQueriesCountsAll ==
    (\A d \in Conns : pc[d] = "done") =>
        \A c \in Conns :
            Searched(c) =>
                performance_stats[c].total_queries =
                    Cardinality({d \in Conns : Searched(d)})

----------------------------------------------------------------------------
(* C16 *)

\* C16: the max_concurrent recorded for a connection that has been accepted
\* is at least 1, the handler being counted included, and at most the number
\* of connections.
C16_MaxConcurrentBounds ==
    \A c \in Conns :
        pc[c] \in Running \cup {"done"} =>
            /\ 1 <= performance_stats[c].max_concurrent
            /\ performance_stats[c].max_concurrent <= MaxConns

----------------------------------------------------------------------------
(* C17 *)

\* the text of what c read with the null padding and the blanks removed
LeadingContent(c) == Strip(RStripNul(Decode(recvd[c].bytes).val))

\* c's read filled max_payload bytes and ends in null padding after some
\* content, as it does when the client sent more than max_payload bytes
PaddedOversize(c) ==
    /\ recvd[c].err = "none"
    /\ Len(recvd[c].bytes) = MAX_PAYLOAD
    /\ recvd[c].bytes[MAX_PAYLOAD] = NUL
    /\ Decode(recvd[c].bytes).ok
    /\ LeadingContent(c) # <<>>
    /\ NUL \notin Range(LeadingContent(c))

\* C17: when the read ends in null padding the request searched for is the
\* leading content with the padding stripped, and the verdict sent is the
\* verdict for that leading content.
C17_NullPaddingStripped ==
    \A c \in Conns :
        (pc[c] \in {"send", "finally"} /\ PaddedOversize(c) /\ exc[c] = NoExc) =>
            /\ request[c] = LeadingContent(c)
            /\ response[c] = Verdict(LeadingContent(c), search_data[c])

----------------------------------------------------------------------------
(* C18 *)

\* every line of the loaded list is non-empty and has no blank at either end
AllTrimmed(lines) == \A i \in 1..Len(lines) : IsTrimmed(lines[i])

\* C18: a loaded dataset, the startup snapshot as well as the list a reread
\* returned to a handler, holds only non-empty trimmed lines.
C18_LoadedLinesTrimmed ==
    /\ CACHE_DATA.tag = "list" => AllTrimmed(CACHE_DATA.val)
    /\ \A c \in Conns : file_dt[c].tag = "list" => AllTrimmed(file_dt[c].val)

----------------------------------------------------------------------------
(* C19 *)

\* c's handler is past a dataset load that returned
LoadReturned(c) ==
    /\ REREAD_QUERY
    /\ pc[c] \in {"search", "stats", "stats_cs"}

\* C19: in reread mode the load either returned the list of lines to the
\* handler or raised FileAccessError: a handler that is past the load holds a
\* list, never another value, and an exception the load raised is a
\* FileAccessError.
C19_LoadReturnsListOrRaises ==
    \A c \in Conns :
        /\ LoadReturned(c) => file_dt[c].tag = "list"
        /\ (pc[c] = "finally" /\ request[c] # <<>> /\ response[c] = ""
                /\ exc[c] # NoExc) => exc[c].type = "FileAccessError"

----------------------------------------------------------------------------
(* C20 *)

\* a step that starts c's handler starts it from a pending connection and
\* starts no other
C20_Step ==
    \A c \in Conns :
        (pc'[c] = "recv" /\ pc[c] # "recv") =>
            /\ pc[c] = "pending"
            /\ \A d \in Conns \ {c} : pc'[d] = pc[d]

\* while the loop runs, the next pending connection can be accepted whatever
\* the handlers of the connections before it are doing
C20_State ==
    \A c \in Conns :
        (listener = "listening" /\ NextPending(c)) => ENABLED Accept(c)

\* C20: the listener starts exactly one handler per accepted connection and
\* never waits for a handler: with any number of handlers still running, a
\* handler that has not got past its receive included, the next pending
\* connection can be accepted and gets a handler of its own.
C20_ListenerNeverWaits == [](C20_State) /\ [][C20_Step]_vars

\* connection 2 was accepted and served while handler 1 was still waiting in
\* its receive
C20_Witness ==
    /\ pc[1] = "recv"
    /\ pc[2] = "finally"
    /\ performance_stats[2].max_concurrent = 1
    /\ Len(Delivered(2)) = 1

----------------------------------------------------------------------------
(* C21 *)

\* the strategy of that name applied to needle s and dataset c
Strategy(name, s, c) ==
    CASE name = "linear_search" -> linear_search(s, c)
      [] name = "binary_search" -> binary_search(s, c)
      [] name = "jump_search" -> jump_search(s, c)
      [] name = "search_in_set" -> search_in_set(s, c)
      [] name = "exponential_search" -> exponential_search(s, c)

\* c with x inserted after its first k elements
InsertAt(c, k, x) == SubSeq(c, 1, k) \o << x >> \o SubSeq(c, k + 1, Len(c))

\* the datasets that repeat one line of c once, put first or last in the
\* list; where the repeat falls in sorted order is decided by the line
Repeats(c) == { InsertAt(c, k, c[j]) : k \in {0, Len(c)}, j \in 1..Len(c) }

\* C21: the value a strategy returned on a dataset is the value it returns on
\* that dataset with one of its lines repeated, wherever the repeat is put;
\* every dataset made by repeating lines is reached by such steps.
C21_DuplicatesChangeNothing ==
    \A r \in result :
        \A d \in Repeats(content) : Strategy(r[1], search_string, d) = r[2]

\* all five strategies ran, and found the needle, on a dataset of three
\* lines whose repeats change the block size of the jump search
C21_Witness ==
    /\ Cardinality(result) = 5
    /\ Len(content) = 3
    /\ Cardinality(Range(content)) = 3
    /\ search_string \in Range(content)
    /\ \A r \in result : r[2]

----------------------------------------------------------------------------
(* C22 *)

\* the handlers inside `with performance_lock:` (lines 148-154)
InStatsSection == { c \in Conns : pc[c] = "stats_cs" }

\* C22: at no time are two threads inside a statistics update section.
C22_StatsMutualExclusion == Cardinality(InStatsSection) <= 1

----------------------------------------------------------------------------
(* C23 *)

\* the positions a handler can move to from each position
HandlerOrder ==
    { << "pending", "recv" >>,
      << "recv", "resolve" >>, << "recv", "except" >>,
      << "resolve", "search" >>, << "resolve", "finally" >>,
      << "search", "stats" >>, << "stats", "stats_cs" >>, << "stats_cs", "send" >>,
      << "send", "finally" >>, << "send", "except" >>,
      << "except", "finally" >>, << "finally", "done" >> }

\* count and running mean of c's record
CountAndMean(c) ==
    << performance_stats[c].total_queries, performance_stats[c].avg_response_time >>

\* c's handler is over, or about to close, without a verdict delivered: it
\* sent ERROR: or SERVER ERROR, or nothing
EndedInError(c) ==
    /\ pc[c] \in {"finally", "done"}
    /\ \/ Sends(c) = <<>>
       \/ \E i \in 1..Len(Sends(c)) :
              Sends(c)[i].data \in ErrorReplies \cup {"SERVER ERROR"}

\* the first sendall of c carried a verdict
VerdictAttempted(c) == Sends(c) # <<>> /\ Sends(c)[1].data \in Verdicts

\* C23 as stated: the update is made for a received request before any reply
\* is sent, at most once, and a handler that ended in ERROR:, in SERVER ERROR
\* or without a reply left total_queries and avg_response_time untouched.
C23_ErrorPathsLeaveStats ==
    \A c \in Conns :
        /\ pc[c] = "stats_cs" => (Sends(c) = <<>> /\ request[c] # <<>>)
        /\ performance_stats[c].total_queries <= 1
        /\ EndedInError(c) => CountAndMean(c) = << 0, 0 >>

\* the handler moves through its steps in order, count and mean change only
\* in the update step, and nothing is sent before it
C23_Step ==
    \A c \in Conns :
        /\ pc'[c] # pc[c] => << pc[c], pc'[c] >> \in HandlerOrder
        /\ CountAndMean(c)' # CountAndMean(c) =>
               /\ pc[c] = "stats_cs" /\ pc'[c] = "send"
               /\ Sends(c) = <<>>
               /\ request[c] # <<>>

\* count and mean were updated exactly for the handlers whose search
\* completed, which are those that went on to send a verdict
C23_State ==
    \A c \in Conns :
        /\ pc[c] = "stats_cs" => (Sends(c) = <<>> /\ request[c] # <<>>)
        /\ pc[c] \in {"finally", "done"} =>
               CountAndMean(c) = IF VerdictAttempted(c) THEN << 1, 2 >> ELSE << 0, 0 >>
        /\ (pc[c] \in {"finally", "done"} /\ ~VerdictAttempted(c)) =>
               \A i \in 1..Len(Sends(c)) :
                   Sends(c)[i].data \in ErrorReplies \cup {"SERVER ERROR"}

\* C23 amended: the steps occur in the order receive, resolve, search,
\* statistics update, reply, close; count and mean are updated only for a
\* request whose search completed and before its reply is sent; a path that
\* fails before the search completes (ERROR:, or an exit without reply)
\* leaves them unchanged, while a path that ends in SERVER ERROR because the
\* sendall of the verdict failed has already counted the request.
C23_StatsOnlyAfterSearch == [](C23_State) /\ [][C23_Step]_vars

\* the sendall of the verdict raised, SERVER ERROR was sent, and the request
\* is counted
C23_Witness ==
    /\ pc[1] = "finally"
    /\ Len(Sends(1)) = 2
    /\ Sends(1)[1].data \in Verdicts /\ ~Sends(1)[1].ok
    /\ Sends(1)[2] = SockCall("sendall", "SERVER ERROR", TRUE)
    /\ CountAndMean(1) = << 1, 2 >>

----------------------------------------------------------------------------
(* C24 *)

StrategyNames ==
    { "linear_search", "binary_search", "jump_search", "search_in_set",
      "exponential_search" }

\* the caller's list after the strategy of that name returned
ListAfter(name, c) ==
    IF name = "linear_search" THEN c ELSE CallerListAfter(c)

\* the snapshot is the same after every step, and the step that searches
\* leaves the list it searched as it was
C24_Step ==
    /\ CACHE_DATA' = CACHE_DATA
    /\ \A c \in Conns :
           (pc[c] = "search" /\ pc'[c] = "stats") => search_data'[c] = search_data[c]

\* whichever strategy were applied to the list a handler is about to search,
\* the list would be unchanged in content and in order
C24_State ==
    \A c \in Conns :
        pc[c] = "search" =>
            \A name \in StrategyNames : ListAfter(name, search_data[c]) = search_data[c]

\* C24: no query modifies the dataset: every strategy leaves the list it is
\* given unchanged in content and order, and the startup snapshot is the
\* same in every reachable state with any number of handlers searching it.
C24_DatasetNeverModified == [](C24_State) /\ [][C24_Step]_vars

\* snapshot mode, a snapshot that is not in sorted order, and both handlers
\* have searched it while both were alive
C24_Witness ==
    /\ ~REREAD_QUERY
    /\ CACHE_DATA.val # Sorted(CACHE_DATA.val)
    /\ pc[1] = "stats" /\ pc[2] = "stats"
    /\ search_data[1] = CACHE_DATA.val /\ search_data[2] = CACHE_DATA.val

----------------------------------------------------------------------------
(* C25 *)

\* the receive step of c ends in one of two ways: a non-empty request of at
\* most max_payload characters, which is the trimmed text of the bytes read
\* with nothing else removed, goes on to the dataset step; or
\* InvalidPayloadError goes to its except clause.  It never goes to the send
\* of the empty-request branch.
C25_Step ==
    \A c \in Conns :
        (pc[c] = "recv" /\ pc'[c] # "recv") =>
            \/ /\ pc'[c] = "resolve"
               /\ exc'[c] = NoExc
               /\ request'[c] # <<>>
               /\ Len(request'[c]) <= MAX_PAYLOAD
               /\ request'[c] = Strip(Decode(recvd'[c].bytes).val)
            \/ /\ pc'[c] = "except"
               /\ exc'[c].type = "InvalidPayloadError"
               /\ request'[c] = <<>>

\* no read is longer than max_payload, and a handler past its receive step
\* holds a non-empty request
C25_State ==
    \A c \in Conns :
        /\ Len(recvd[c].bytes) <= MAX_PAYLOAD
        /\ pc[c] \in {"resolve", "search", "stats", "stats_cs", "send"} =>
               request[c] # <<>>

----------------------------------------------------------------------------
(* C26 *)

\* a step that changes c's record is either the listener's accept of c,
\* before c's thread runs, which leaves the count at 0, or the one update of
\* c's own handler, which takes the count from 0 to 1 and leaves
\* max_concurrent; no step changes two records
C26_Step ==
    /\ \A c \in Conns :
           performance_stats'[c] # performance_stats[c] =>
               \/ /\ pc[c] = "pending" /\ pc'[c] = "recv"
                  /\ performance_stats'[c].total_queries = 0
               \/ /\ pc[c] = "stats_cs" /\ pc'[c] = "send"
                  /\ performance_stats[c].total_queries = 0
                  /\ performance_stats'[c].total_queries = 1
                  /\ performance_stats'[c].max_concurrent =
                         performance_stats[c].max_concurrent
    /\ \A c, d \in Conns :
           (performance_stats'[c] # performance_stats[c]
                /\ performance_stats'[d] # performance_stats[d]) => c = d

\* a record counts no query, or one
C26_State ==
    \A c \in Conns : performance_stats[c].total_queries \in {0, 1}

\* C26: each connection has a record of its own, written by the listener
\* only before the handler thread starts and then only by that handler, at
\* most once; a finished handler's total_queries is 0 or 1.
C26_RecordPerConnection == [](C26_State) /\ [][C26_Step]_vars

\* two handlers that were alive together have both finished, and each record
\* counts its own query only
C26_Witness ==
    /\ pc[1] = "done" /\ pc[2] = "done"
    /\ performance_stats[2].max_concurrent = 1
    /\ performance_stats[1].total_queries = 1
    /\ performance_stats[2].total_queries = 1

----------------------------------------------------------------------------
(* C27 *)

\* C27: on every connection at most one reply is delivered, a second sendall
\* is made only after the first one raised, there is never a third, no call
\* is made on the socket after close, and close is the last call of a
\* handler that has ended.
C27_OneReplyNothingAfterClose ==
    \A c \in Conns :
        /\ Len(Delivered(c)) <= 1
        /\ Len(Sends(c)) <= 2
        /\ Len(Sends(c)) = 2 => ~Sends(c)[1].ok
        /\ \A i \in 1..Len(sockLog[c]) : IsClose(sockLog[c][i]) => i = Len(sockLog[c])
        /\ pc[c] = "done" => IsClose(sockLog[c][Len(sockLog[c])])

\* the handler has ended: its verdict could not be sent, SERVER ERROR was
\* delivered, then the socket was closed
C27_Witness ==
    /\ pc[1] = "done"
    /\ Len(sockLog[1]) = 4
    /\ IsSend(sockLog[1][2]) /\ ~sockLog[1][2].ok /\ sockLog[1][2].data \in Verdicts
    /\ sockLog[1][3] = SockCall("sendall", "SERVER ERROR", TRUE)
    /\ IsClose(sockLog[1][4])

----------------------------------------------------------------------------
(* C28 *)

\* the pair that stands for a loop that has not ended
NotEnded == << -1, -1 >>

\* the while loop of jump_search run for at most k turns: <<prev, curr>> when
\* it ends, NotEnded when k turns were not enough
RECURSIVE JumpLoopWithin(_, _, _, _, _, _, _)
JumpLoopWithin(c, s, n, block_size, prev, curr, k) ==
    IF curr < n /\ StrLE(c[curr + 1], s)
    THEN IF k = 0 THEN NotEnded
         ELSE LET next == curr + block_size
              IN  JumpLoopWithin(c, s, n, block_size, curr,
                                 IF next >= n THEN Min(next, n) ELSE next, k - 1)
    ELSE << prev, curr >>

\* the while loop of exponential_search run for at most k turns: <<i, i>>
\* when it ends
RECURSIVE ExpLoopWithin(_, _, _, _)
ExpLoopWithin(c, s, i, k) ==
    IF i < Len(c) /\ StrLE(c[i + 1], s)
    THEN IF k = 0 THEN NotEnded ELSE ExpLoopWithin(c, s, i * 2, k - 1)
    ELSE << i, i >>

\* jump_search on c ends within len(c) turns of its loop, and its scan reads
\* only indices 0 .. len(c) - 1 of the sorted copy
JumpEndsInRange(s, c) ==
    LET n == Len(c)
        sorted_c == Sorted(c)
        end == JumpLoopWithin(sorted_c, s, n, ISqrt(n), 0, 0, n)
    IN  /\ end # NotEnded
        /\ end = JumpLoop(sorted_c, s, n, ISqrt(n), 0, 0)
        /\ 0 <= end[1] /\ end[1] <= end[2] /\ end[2] <= n

\* exponential_search on c ends within len(c) turns of its loop, and the
\* slice it hands to binary_search lies inside the sorted copy
ExpEndsInRange(s, c) ==
    LET sorted_c == Sorted(c)
        end == ExpLoopWithin(sorted_c, s, 1, Len(c))
    IN  (sorted_c # <<>> /\ sorted_c[1] # s) =>
            /\ end # NotEnded
            /\ end[1] = ExpLoop(sorted_c, s, 1)
            /\ end[1] \div 2 < Min(end[1], Len(sorted_c))

\* C28: for every needle and every dataset, the empty one and the sizes 1, 2
\* and 3 included, the loops of jump_search and of exponential_search end,
\* and no index outside the sorted copy is read.
C28_SearchLoopsEnd ==
    /\ JumpEndsInRange(search_string, content)
    /\ ExpEndsInRange(search_string, content)

\* both functions have returned on the empty dataset, where the block size
\* is 0
C28_Witness ==
    /\ content = <<>>
    /\ ISqrt(Len(content)) = 0
    /\ << "jump_search", FALSE >> \in result
    /\ << "exponential_search", FALSE >> \in result

====
